---- MODULE Spec2Model ----
(***************************************************************************)
(* Model of webp_batch_and_csv.py: one pass over an input tree that        *)
(* converts or copies every image to a mirrored .webp output, accumulates  *)
(* one index row per converted or already-present output, and writes the   *)
(* rows as a CSV table.                                                    *)
(*                                                                         *)
(* Strings are sequences of one-character strings, so that suffix          *)
(* extraction, lower-casing, splitting and stripping are computed the way  *)
(* the program computes them.  A path is a sequence of names (absolute,    *)
(* from the filesystem root); a name is a string.  The character "#"       *)
(* stands for a byte of a file name that is not valid UTF-8 (0xFF), which  *)
(* Python carries in a str as a lone surrogate.                            *)
(***************************************************************************)
EXTENDS Integers, Sequences, FiniteSets, TLC

(***************************************************************************)
(* Bounds of the model.                                                    *)
(***************************************************************************)
\* largest number of entries of the input tree chosen by Init
MaxFiles == 2
\* longest stem given to parse_name by the parser specification
MaxStemLen == 4

(***************************************************************************)
(* Strings.                                                                *)
(***************************************************************************)
\* the upper-case letters and the lower-case letter of each
UpperCase ==
  <<"A", "B", "C", "D", "E", "F", "G", "H", "I", "J", "K", "L", "M",
    "N", "O", "P", "Q", "R", "S", "T", "U", "V", "W", "X", "Y", "Z">>

LowerCase ==
  <<"a", "b", "c", "d", "e", "f", "g", "h", "i", "j", "k", "l", "m",
    "n", "o", "p", "q", "r", "s", "t", "u", "v", "w", "x", "y", "z">>

\* str.lower() on one character: an upper-case letter becomes its lower-case
\* letter, any other character of the model (lower-case letters, digits,
\* ".", "_", "/") stays
LowerChar(c) ==
  IF \E i \in 1..Len(UpperCase) : UpperCase[i] = c
  THEN LowerCase[CHOOSE i \in 1..Len(UpperCase) : UpperCase[i] = c]
  ELSE c

\* str.lower()
RECURSIVE Lower(_)
Lower(s) == IF s = <<>> THEN <<>> ELSE <<LowerChar(Head(s))>> \o Lower(Tail(s))

\* str.rfind(ch), 1-based; 0 when ch does not occur
RFind(s, ch) ==
  LET hits == {i \in 1..Len(s) : s[i] = ch}
  IN  IF hits = {} THEN 0 ELSE CHOOSE i \in hits : \A j \in hits : j <= i

\* PurePath.suffix: the last dot and what follows it, unless the dot is the
\* first or the last character of the name
Suffix(name) ==
  LET i == RFind(name, ".")
  IN  IF 1 < i /\ i < Len(name) THEN SubSeq(name, i, Len(name)) ELSE <<>>

\* PurePath.stem: the name without its suffix
Stem(name) ==
  LET i == RFind(name, ".")
  IN  IF 1 < i /\ i < Len(name) THEN SubSeq(name, 1, i - 1) ELSE name

\* PurePath.with_suffix(suffix), applied to the last name of a path
with_suffix(path, suffix) ==
  LET name == path[Len(path)]
      old  == Suffix(name)
      new  == SubSeq(name, 1, Len(name) - Len(old)) \o suffix
  IN  [path EXCEPT ![Len(path)] = new]

\* PurePath.relative_to(base): path is below base
relative_to(path, base) == SubSeq(path, Len(base) + 1, Len(path))

\* PurePath.as_posix() of a relative path: the names joined by "/"
RECURSIVE as_posix(_)
as_posix(rel) ==
  IF rel = <<>> THEN <<>>
  ELSE IF Len(rel) = 1 THEN rel[1]
  ELSE rel[1] \o <<"/">> \o as_posix(Tail(rel))

\* str.rstrip('/'): every trailing slash is removed
RECURSIVE rstrip(_)
rstrip(s) ==
  IF s # <<>> /\ s[Len(s)] = "/" THEN rstrip(SubSeq(s, 1, Len(s) - 1)) ELSE s

\* str.split('_'): the segments between underscores; never empty
RECURSIVE split(_, _, _)
split(s, cur, acc) ==
  IF s = <<>> THEN Append(acc, cur)
  ELSE IF Head(s) = "_" THEN split(Tail(s), <<>>, Append(acc, cur))
  ELSE split(Tail(s), Append(cur, Head(s)), acc)

\* the characters str.encode('utf-8') rejects: the lone surrogates
Unencodable == {"#"}

\* s.encode('utf-8') with the strict error handler succeeds
Encodable(s) == \A i \in 1..Len(s) : s[i] \notin Unencodable

\* every field of a row of the table can be encoded
RowEncodable(row) == \A k \in 1..Len(row) : Encodable(row[k])

\* every name of a path can be encoded
PathEncodable(path) == \A k \in 1..Len(path) : Encodable(path[k])

(***************************************************************************)
(* Program constants.                                                      *)
(***************************************************************************)
VALID_EXTS ==
  { <<".", "j", "p", "g">>, <<".", "j", "p", "e", "g">>, <<".", "p", "n", "g">>,
    <<".", "b", "m", "p">>, <<".", "t", "i", "f">>, <<".", "t", "i", "f", "f">>,
    <<".", "g", "i", "f">> }

WEBP_EXT == <<".", "w", "e", "b", "p">>

\* the header row of the CSV
Header ==
  << <<"f","i","l","e","_","s","t","e","m">>, <<"s","t","a","t","i","o","n">>,
     <<"l","o","c","a","t","i","o","n">>, <<"a","n","g","l","e">>,
     <<"r","e","l","_","p","a","t","h">>, <<"u","r","l">> >>

(***************************************************************************)
(* parse_name                                                              *)
(***************************************************************************)
\* parse_name with the last segment taken for the third
parse_name_last(stem) ==
  LET parts    == split(stem, <<>>, <<>>)
      station  == IF Len(parts) > 0 THEN parts[1] ELSE <<>>
      location == IF Len(parts) > 1 THEN parts[2] ELSE <<>>
      angle    == IF Len(parts) > 2 THEN parts[Len(parts)] ELSE <<>>
  IN  <<station, location, angle>>

parse_name(stem) ==
  LET parts    == split(stem, <<>>, <<>>)
      station  == IF Len(parts) > 0 THEN parts[1] ELSE <<>>
      location == IF Len(parts) > 1 THEN parts[2] ELSE <<>>
      angle    == IF Len(parts) > 2 THEN parts[3] ELSE <<>>
  IN  <<station, location, angle>>

(***************************************************************************)
(* The filesystem: a function from the absolute paths that exist to nodes. *)
(* A node is a directory or a file with its bytes.  Bytes are abstracted   *)
(* to the image they hold and the number of times it was encoded, or to    *)
(* the table a CSV file holds; the images "junk" and "csv" cannot be       *)
(* decoded.  There are no symbolic links, names are case-sensitive, and an *)
(* operation fails only for a reason the tree itself gives (no transient   *)
(* I/O failure).                                                           *)
(***************************************************************************)
DirNode == [kind |-> "dir", data |-> [img |-> "none", gen |-> 0, table |-> <<>>]]

FileNode(data) == [kind |-> "file", data |-> data]

\* bytes of a source image, of a corrupt file, and of an output of an
\* earlier session
Good  == [img |-> "A", gen |-> 0, table |-> <<>>]
Junk  == [img |-> "junk", gen |-> 0, table |-> <<>>]
Old   == [img |-> "old", gen |-> 1, table |-> <<>>]

\* bytes of a CSV file that holds the rows of table
CsvBytes(table) == [img |-> "csv", gen |-> 0, table |-> table]

\* Path.exists()
exists(f, p) == p = <<>> \/ p \in DOMAIN f

\* Path.is_dir()
is_dir(f, p) == p = <<>> \/ (p \in DOMAIN f /\ f[p].kind = "dir")

\* Path.parent
parent(p) == SubSeq(p, 1, Len(p) - 1)

\* the proper and improper prefixes of a path, the root excluded
Prefixes(p) == {SubSeq(p, 1, k) : k \in 1..Len(p)}

\* f with the nodes of g added or replaced
Overlay(g, f) == g @@ f

\* Path.mkdir(parents=True, exist_ok=True): fails when the path or one of
\* its ancestors is a file, and then creates nothing; otherwise creates the
\* directories that are missing
mkdir_parents(f, p) ==
  IF \E q \in Prefixes(p) : q \in DOMAIN f /\ f[q].kind = "file"
  THEN [ok |-> FALSE, fs |-> f]
  ELSE [ok |-> TRUE,
        fs |-> Overlay([q \in Prefixes(p) \ DOMAIN f |-> DirNode], f)]

\* open(path, 'wb').write(data): fails on a directory and under a missing
\* parent; otherwise creates or replaces the file
write_bytes(f, p, data) ==
  IF is_dir(f, p) \/ ~is_dir(f, parent(p))
  THEN [ok |-> FALSE, fs |-> f]
  ELSE [ok |-> TRUE, fs |-> Overlay([q \in {p} |-> FileNode(data)], f)]

\* Image.open(...) succeeds on a file that holds an image
decodable(f, p) ==
  p \in DOMAIN f /\ f[p].kind = "file" /\ f[p].data.img \notin {"junk", "csv"}

\* the bytes im.save(format='WEBP') writes for the image held by data
Encode(data) == [data EXCEPT !.gen = @ + 1]

\* to_webp: create the parent directories, decode the input, encode it to
\* out_path; a failure leaves what was done before it
to_webp(f, in_path, out_path) ==
  LET made == mkdir_parents(f, parent(out_path))
  IN  IF ~made.ok THEN [ok |-> FALSE, fs |-> f]
      ELSE IF ~decodable(made.fs, in_path) THEN [ok |-> FALSE, fs |-> made.fs]
      ELSE write_bytes(made.fs, out_path, Encode(made.fs[in_path].data))

\* the pass-through copy of an input that is already .webp
copy_webp(f, src, dst) ==
  LET made == mkdir_parents(f, parent(dst))
  IN  IF ~made.ok THEN [ok |-> FALSE, fs |-> f]
      ELSE write_bytes(made.fs, dst, made.fs[src].data)

\* the rows of table that writerow and writerows write: each row is encoded
\* when it is written, and the first row that cannot be encoded ends the
\* writing; the rows before it stay in the file
encoded_rows(table) ==
  LET bad == {k \in 1..Len(table) : ~RowEncodable(table[k])}
  IN  IF bad = {} THEN table
      ELSE SubSeq(table, 1, (CHOOSE k \in bad : \A j \in bad : k <= j) - 1)

\* the end of main(): create the parent directories of the table, open it
\* for writing (encoding utf-8) and write the rows; a failure of mkdir
\* leaves the filesystem as it was, a failure of open leaves the directories
\* that were made, a row that cannot be encoded leaves the table with the
\* rows before it
write_csv(f, path, table) ==
  LET made  == mkdir_parents(f, parent(path))
      wrote == write_bytes(made.fs, path, CsvBytes(encoded_rows(table)))
  IN  IF ~made.ok THEN [ok |-> FALSE, fs |-> f]
      ELSE [ok |-> wrote.ok /\ encoded_rows(table) = table, fs |-> wrote.fs]

(***************************************************************************)
(* State.                                                                  *)
(***************************************************************************)
VARIABLES
  fs,                \* the filesystem
  out_dir,           \* args.output_dir, resolved
  base_url,          \* args.base_url
  overwrite,         \* args.overwrite
  skip_webp_inputs,  \* args.skip_webp_inputs
  pc,                \* "main", "walk", "done", "aborted" (SystemExit) or
                     \* "raised" (an exception left main)
  stack,             \* os.walk: the directories still to be listed
  root,              \* os.walk: the directory being yielded
  files,             \* os.walk: the files of root not yet visited
  converted, skipped, errors, rows,
  csv_path,          \* args.csv_out, resolved
  stdout_strict,     \* sys.stdout raises on a character it cannot encode
  run,               \* which run of the tool this is: the first or the second
  prev,              \* the rows and the filesystem the previous run ended with
  seen,              \* history: the files visited by this run, in order
  p_stem, p_out      \* the parser specification: an input and parse_name's result

vars ==
  << fs, out_dir, base_url, overwrite, skip_webp_inputs, pc, stack, root, files,
     converted, skipped, errors, rows, csv_path, stdout_strict, run, prev, seen,
     p_stem, p_out >>

\* the variables of the run, without the parser's
run_vars ==
  << fs, out_dir, base_url, overwrite, skip_webp_inputs, pc, stack, root, files,
     converted, skipped, errors, rows, csv_path, stdout_strict, run, prev, seen >>

(***************************************************************************)
(* The trees and arguments Init chooses from.                              *)
(***************************************************************************)
\* args.input_dir, resolved
in_dir == << <<"i">> >>

\* output roots: beside the input root, or inside it
OutDirs == { << <<"o">> >>, << <<"i">>, <<"o">> >> }

BaseUrls == { <<"u">>, <<"u", "/", "/">> }

n_index_csv == <<"i", "n", "d", "e", "x", ".", "c", "s", "v">>

\* paths of the table: a file below /o (the output root, or a directory
\* beside the trees), /o itself, and a file below the input tree's n.txt
CsvPaths ==
  { << <<"o">>, n_index_csv >>,
    << <<"o">> >>,
    << <<"i">>, <<"n", ".", "t", "x", "t">>, n_index_csv >> }

\* the command lines: every output root with every base url and the table
\* at /o/index.csv, and every path of the table with the output root /o
Arguments ==
  { [out |-> o, csv |-> << <<"o">>, n_index_csv >>, url |-> u] :
      o \in OutDirs, u \in BaseUrls }
  \cup { [out |-> << <<"o">> >>, csv |-> c, url |-> <<"u", "/", "/">>] :
           c \in CsvPaths }

\* the command line used with the file names that are not UTF-8
PlainArguments ==
  [out |-> << <<"o">> >>, csv |-> << <<"o">>, n_index_csv >>, url |-> <<"u">>]

\* a command line whose output root and table path are not UTF-8
NonUtf8Arguments ==
  [out |-> << <<"o", "#">> >>, csv |-> << <<"o", "#">>, n_index_csv >>,
   url |-> <<"u">>]

n_a_jpg  == <<"a", ".", "j", "p", "g">>
n_a_PNG  == <<"a", ".", "P", "N", "G">>
n_a_webp == <<"a", ".", "w", "e", "b", "p">>
n_b_jpg  == <<"b", "_", "c", ".", "j", "p", "g">>
n_n_txt  == <<"n", ".", "t", "x", "t">>
n_s      == <<"s">>
n_x_webp == <<"x", "_", "y", "_", "z", "_", "w", ".", "W", "e", "b", "p">>
n_x_out  == <<"x", "_", "y", "_", "z", "_", "w", ".", "w", "e", "b", "p">>
n_h_jpg  == <<"h", "#", ".", "j", "p", "g">>

\* candidate files of the input tree, as paths relative to in_dir
InputCandidates ==
  { [rel |-> <<n_a_jpg>>, data |-> Good],
    [rel |-> <<n_a_jpg>>, data |-> Junk],
    [rel |-> <<n_a_PNG>>, data |-> Good],
    [rel |-> <<n_s, n_x_webp>>, data |-> Good],
    [rel |-> <<n_n_txt>>, data |-> Good],
    [rel |-> <<n_a_webp, n_b_jpg>>, data |-> Good],
    [rel |-> <<n_h_jpg>>, data |-> Good],
    [rel |-> <<n_h_jpg>>, data |-> Junk] }

\* the input trees: at most MaxFiles candidates, one per path
InputTrees ==
  { S \in SUBSET InputCandidates :
      /\ Cardinality(S) <= MaxFiles
      /\ \A x, y \in S : x.rel = y.rel => x = y }

\* what the output root holds at the start, as paths relative to out_dir
\* (the empty set of nodes: the output root does not exist)
OutputTrees ==
  { {},
    {[rel |-> <<n_a_webp>>, node |-> FileNode(Old)]},
    {[rel |-> <<n_a_webp>>, node |-> DirNode]},
    {[rel |-> <<n_s, n_x_out>>, node |-> FileNode(Old)]} }

\* the filesystem that holds the entries (absolute path, node) and the
\* directories above them
Tree(entries) ==
  LET paths == {e.path : e \in entries}
      above == (UNION {Prefixes(p) : p \in paths}) \ paths
  IN  Overlay([p \in paths |-> (CHOOSE e \in entries : e.path = p).node],
              [p \in above |-> DirNode])

\* a filesystem with the input tree ins below in_dir and the output tree
\* outs below out
StartFs(ins, outs, out) ==
  Tree({[path |-> in_dir \o x.rel, node |-> FileNode(x.data)] : x \in ins}
       \cup {[path |-> in_dir, node |-> DirNode]}
       \cup {[path |-> out \o y.rel, node |-> y.node] : y \in outs})

\* the command lines and error handlers of stdout chosen for the input tree
\* ins.  The handler of stdout (strict under most UTF-8 locales and with
\* PYTHONIOENCODING=utf-8:strict, surrogateescape under the C and POSIX
\* locales) makes a difference only when a name is not UTF-8, so both
\* handlers are chosen where a file name, the output root or the table path
\* is not UTF-8.
Environments(ins) ==
  IF \A x \in ins : PathEncodable(x.rel)
  THEN {[args |-> a, strict |-> FALSE] : a \in Arguments}
       \cup {[args |-> NonUtf8Arguments, strict |-> b] : b \in BOOLEAN}
  ELSE {[args |-> PlainArguments, strict |-> b] : b \in BOOLEAN}

NoRun == [rows |-> <<>>, fs |-> <<>>]

\* the state before main() of the first run; the parser's variables idle
InitRun ==
  /\ overwrite \in BOOLEAN
  /\ skip_webp_inputs \in BOOLEAN
  /\ \/ \E ins \in InputTrees, outs \in OutputTrees :
          \E e \in Environments(ins) :
            /\ out_dir = e.args.out
            /\ csv_path = e.args.csv
            /\ base_url = e.args.url
            /\ stdout_strict = e.strict
            /\ fs = StartFs(ins, outs, out_dir)
     \/ \E a \in Arguments :
          /\ out_dir = a.out /\ csv_path = a.csv /\ base_url = a.url
          /\ stdout_strict = FALSE
          /\ \/ fs = Tree({[path |-> in_dir, node |-> FileNode(Good)]})
             \/ fs = Tree({[path |-> out_dir \o <<n_a_webp>>, node |-> FileNode(Old)]})
  /\ pc = "main"
  /\ stack = <<>>
  /\ root = <<>>
  /\ files = {}
  /\ converted = 0 /\ skipped = 0 /\ errors = 0
  /\ rows = <<>>
  /\ run = 1
  /\ prev = NoRun
  /\ seen = <<>>

Init == InitRun /\ p_stem = <<>> /\ p_out = <<>>

(***************************************************************************)
(* main(): the decisions taken for one file, in the order of the loop body *)
(***************************************************************************)
\* skips_native with the flag forgotten
skips_native_always(ext) == ext = WEBP_EXT

\* the test of the first branch: a .webp input while --skip-webp-inputs
skips_native(ext) == ext = WEBP_EXT /\ skip_webp_inputs

\* the test of the second branch: neither an accepted input nor .webp
ignored(ext) == ext \notin VALID_EXTS /\ ext # WEBP_EXT

\* mirrored with the target suffix added after the suffix of the input
mirrored_appended(src) ==
  LET rel == relative_to(src, in_dir)
  IN  [rel EXCEPT ![Len(rel)] = @ \o WEBP_EXT]

\* out_rel: the path of src relative to in_dir, its suffix replaced
mirrored(src) == with_suffix(relative_to(src, in_dir), WEBP_EXT)

\* keeps_existing with the flag inverted
keeps_existing_inverted(dst) == exists(fs, dst) /\ overwrite

\* the test of the third branch: the output is there and is to be kept
keeps_existing(dst) == exists(fs, dst) /\ ~overwrite

\* row_existing with the base url taken as it is
row_existing_unstripped(dst, out_rel) ==
  LET stem == Stem(dst[Len(dst)])
      name == parse_name(stem)
      url  == base_url \o <<"/">> \o as_posix(out_rel)
  IN  <<stem, name[1], name[2], name[3], as_posix(out_rel), url>>

\* the row appended for an output that was kept
row_existing(dst, out_rel) ==
  LET stem == Stem(dst[Len(dst)])
      name == parse_name(stem)
      url  == rstrip(base_url) \o <<"/">> \o as_posix(out_rel)
  IN  <<stem, name[1], name[2], name[3], as_posix(out_rel), url>>

\* the row appended for an output that was written
row_converted(dst, out_rel) ==
  LET stem == Stem(dst[Len(dst)])
      name == parse_name(stem)
      url  == rstrip(base_url) \o <<"/">> \o as_posix(out_rel)
  IN  <<stem, name[1], name[2], name[3], as_posix(out_rel), url>>

\* the body of the try: a copy for a .webp input, the encoder otherwise
write_output(src, dst, ext) ==
  IF ext = WEBP_EXT THEN copy_webp(fs, src, dst) ELSE to_webp(fs, src, dst)

\* branch with the test for an existing output made first
branch_existing_first(src, dst, ext) ==
  IF keeps_existing(dst) /\ ~ignored(ext) THEN "existing"
  ELSE IF skips_native(ext) THEN "native"
  ELSE IF ignored(ext) THEN "ignored"
  ELSE IF write_output(src, dst, ext).ok THEN "converted"
  ELSE "error"

\* the branch the loop body takes for src
branch(src, dst, ext) ==
  IF skips_native(ext) THEN "native"
  ELSE IF ignored(ext) THEN "ignored"
  ELSE IF keeps_existing(dst) THEN "existing"
  ELSE IF write_output(src, dst, ext).ok THEN "converted"
  ELSE "error"

\* print() of a text that names the paths of the set succeeds: a strict
\* stdout raises on a name that cannot be encoded
prints(paths) == ~stdout_strict \/ \A path \in paths : PathEncodable(path)

\* print(f"[ERROR] {src} -> {dst}: {e}") succeeds.  The text of e names the
\* files it is about through repr(), which escapes what cannot be encoded,
\* so e adds nothing to what src and dst hold.
prints_error(src, dst) == prints({src, dst})

\* the prints after the table was written succeed: the counters, then
\* csv_path and out_dir
prints_summary == prints({csv_path, out_dir})

\* where the loop stands after the body ended the way did says for src and
\* dst: the except clause swallows the failure and the loop goes on, unless
\* printing the failure raises in the except clause and the exception
\* leaves main()
next_pc(did, src, dst) ==
  IF did = "error" /\ ~prints_error(src, dst) THEN "raised" ELSE "walk"

\* the orders in which scandir may list the members of S
Orders(S) ==
  {o \in [1..Cardinality(S) -> S] : \A i, j \in 1..Cardinality(S) : o[i] = o[j] => i = j}

(***************************************************************************)
(* Actions.                                                                *)
(***************************************************************************)
\* main() up to the loop: the input directory must exist; counters and rows
\* start empty
Begin ==
  /\ pc = "main"
  /\ IF ~exists(fs, in_dir)
     THEN /\ pc' = "aborted"
          /\ UNCHANGED <<stack, converted, skipped, errors, rows, seen>>
     ELSE /\ pc' = "walk"
          /\ stack' = <<in_dir>>
          /\ converted' = 0 /\ skipped' = 0 /\ errors' = 0
          /\ rows' = <<>>
          /\ seen' = <<>>
  /\ UNCHANGED <<fs, out_dir, base_url, overwrite, skip_webp_inputs, root, files,
                 csv_path, stdout_strict, run, prev, p_stem, p_out>>

\* os.walk yields the next directory: its entries are listed now, in any
\* order; its subdirectories are walked after its files, depth first.  A
\* top that is not a directory lists nothing.
EnterDir ==
  /\ pc = "walk"
  /\ files = {}
  /\ stack # <<>>
  /\ LET top  == Head(stack)
         kids == {p \in DOMAIN fs : Len(p) = Len(top) + 1 /\ parent(p) = top}
         dirs == {p \in kids : fs[p].kind = "dir"}
     IN  /\ root' = top
         /\ files' = {p[Len(p)] : p \in {q \in kids : fs[q].kind = "file"}}
         /\ \E order \in Orders(dirs) : stack' = order \o Tail(stack)
  /\ UNCHANGED <<fs, out_dir, base_url, overwrite, skip_webp_inputs, pc,
                 converted, skipped, errors, rows, csv_path, stdout_strict, run,
                 prev, seen, p_stem, p_out>>

\* one iteration of the loop over the files of root; errors is counted
\* after the failure was printed
ProcessFile ==
  /\ pc = "walk"
  /\ \E name \in files :
       LET src     == Append(root, name)
           ext     == Lower(Suffix(name))
           out_rel == mirrored(src)
           dst     == out_dir \o out_rel
           did     == branch(src, dst, ext)
           wrote   == write_output(src, dst, ext)
       IN  /\ files' = files \ {name}
           /\ seen' = Append(seen, [src |-> src, data |-> fs[src].data,
                                    had |-> exists(fs, dst), did |-> did])
           /\ fs' = IF did \in {"converted", "error"} THEN wrote.fs ELSE fs
           /\ rows' = CASE did = "existing"  -> Append(rows, row_existing(dst, out_rel))
                        [] did = "converted" -> Append(rows, row_converted(dst, out_rel))
                        [] OTHER -> rows
           /\ converted' = IF did = "converted" THEN converted + 1 ELSE converted
           /\ skipped' = IF did \in {"native", "existing"} THEN skipped + 1 ELSE skipped
           /\ errors' = IF did = "error" /\ prints_error(src, dst)
                        THEN errors + 1 ELSE errors
           /\ pc' = next_pc(did, src, dst)
  /\ UNCHANGED <<out_dir, base_url, overwrite, skip_webp_inputs, stack, root,
                 csv_path, stdout_strict, run, prev, p_stem, p_out>>

\* after the walk: the header and the rows are written to the table at
\* csv_path, then the counters and the two paths are printed; when the
\* table's directory cannot be made, the table cannot be opened, a row
\* cannot be encoded or a path cannot be printed, the exception leaves main()
WriteCsv ==
  /\ pc = "walk"
  /\ files = {}
  /\ stack = <<>>
  /\ LET wrote == write_csv(fs, csv_path, <<Header>> \o rows)
     IN  /\ fs' = wrote.fs
         /\ pc' = IF wrote.ok /\ prints_summary THEN "done" ELSE "raised"
  /\ UNCHANGED <<out_dir, base_url, overwrite, skip_webp_inputs, stack, root,
                 files, converted, skipped, errors, rows, csv_path, stdout_strict,
                 run, prev, seen, p_stem, p_out>>

\* the tool is started a second time, with the same arguments, on the
\* filesystem the first run left
Rerun ==
  /\ pc = "done"
  /\ run = 1
  /\ run' = 2
  /\ prev' = [rows |-> rows, fs |-> fs]
  /\ pc' = "main"
  /\ UNCHANGED <<fs, out_dir, base_url, overwrite, skip_webp_inputs, stack, root,
                 files, converted, skipped, errors, rows, csv_path, stdout_strict,
                 seen, p_stem, p_out>>

Next == Begin \/ EnterDir \/ ProcessFile \/ WriteCsv \/ Rerun

Spec == Init /\ [][Next]_vars

(***************************************************************************)
(* The parser specification: parse_name applied to the stems of a bounded  *)
(* set and to the stems the documentation names.                           *)
(***************************************************************************)
StemChars == {"a", "b", "_"}

Stem34th ==
  <<"3","4","t","h","_","s","t","_","t","i","m","e","s","_","s","q","u","a","r","e">>

StemOnlyname == <<"o","n","l","y","n","a","m","e">>

Stems ==
  (UNION {[1..k -> StemChars] : k \in 0..MaxStemLen}) \cup {Stem34th, StemOnlyname}

InitParse ==
  /\ p_stem \in Stems
  /\ p_out = <<>>
  /\ fs = Tree({[path |-> in_dir, node |-> DirNode]})
  /\ out_dir = << <<"o">> >>
  /\ csv_path = << <<"o">>, n_index_csv >>
  /\ stdout_strict = FALSE
  /\ base_url = <<"u">>
  /\ overwrite = FALSE
  /\ skip_webp_inputs = FALSE
  /\ pc = "idle"
  /\ stack = <<>>
  /\ root = <<>>
  /\ files = {}
  /\ converted = 0 /\ skipped = 0 /\ errors = 0
  /\ rows = <<>>
  /\ run = 1
  /\ prev = NoRun
  /\ seen = <<>>

\* station, location, angle = parse_name(stem)
Parse ==
  /\ p_out = <<>>
  /\ p_out' = parse_name(p_stem)
  /\ UNCHANGED <<p_stem, run_vars>>

NextParse == Parse

SpecParse == InitParse /\ [][NextParse]_vars

(***************************************************************************)
(* Vocabulary of the properties, stated without the operators of main().   *)
(***************************************************************************)
\* name ends with the extension e, letter case ignored
EndsWithCI(name, e) ==
  /\ Len(name) > Len(e)
  /\ \A i \in 1..Len(e) : LowerChar(name[Len(name) - Len(e) + i]) = e[i]

\* the extension of name is one of the accepted input extensions
Accepted(name) == \E e \in VALID_EXTS : EndsWithCI(name, e)

\* the extension of name is the target extension
Native(name) == EndsWithCI(name, WEBP_EXT)

\* the last name of a path
NameOf(path) == path[Len(path)]

\* the mirrored output path of the input file src: the directories and the
\* stem of src below the output root, the extension replaced by the target's
ExpectedOut(src) ==
  LET name == NameOf(src)
      e    == CHOOSE x \in VALID_EXTS \cup {WEBP_EXT} : EndsWithCI(name, x)
      dirs == SubSeq(src, Len(in_dir) + 1, Len(src) - 1)
  IN  out_dir \o dirs \o <<SubSeq(name, 1, Len(name) - Len(e)) \o WEBP_EXT>>

\* the names of rel joined by forward slashes
RECURSIVE SlashJoin(_)
SlashJoin(rel) ==
  IF Len(rel) = 0 THEN <<>>
  ELSE IF Len(rel) = 1 THEN rel[1]
  ELSE SlashJoin(SubSeq(rel, 1, Len(rel) - 1)) \o <<"/">> \o rel[Len(rel)]

\* s without its trailing slashes: the longest prefix of s that does not end
\* with a slash
TrimSlashes(s) ==
  LET ks == {k \in 0..Len(s) : k = 0 \/ s[k] # "/"}
      k  == CHOOSE x \in ks : \A y \in ks : y <= x
  IN  SubSeq(s, 1, k)

\* the k-th segment of stem between underscores, empty when there is none
Segment(stem, k) ==
  LET cuts == {0, Len(stem) + 1} \cup {i \in 1..Len(stem) : stem[i] = "_"}
      nth(n) == CHOOSE c \in cuts : Cardinality({d \in cuts : d < c}) = n - 1
  IN  IF k >= Cardinality(cuts) THEN <<>>
      ELSE SubSeq(stem, nth(k) + 1, nth(k + 1) - 1)

\* this step is the loop body run for the file f of root
Visits(f) == pc = "walk" /\ f \in files /\ files' = files \ {f}

\* rows' is rows with exactly one row appended
OneRowAppended == Len(rows') = Len(rows) + 1 /\ SubSeq(rows', 1, Len(rows)) = rows

\* the members of a sequence
Range(q) == {q[i] : i \in 1..Len(q)}

\* p lies below the directory d
Below(p, d) == Len(p) > Len(d) /\ SubSeq(p, 1, Len(d)) = d

\* the entries of seen that a predicate on the file name selects
SeenNative == {i \in 1..Len(seen) : Native(NameOf(seen[i].src))}
SeenAccepted == {i \in 1..Len(seen) : Accepted(NameOf(seen[i].src))}

(***************************************************************************)
(* Properties.                                                             *)
(***************************************************************************)
\* C1: when a file with an accepted or the target extension is visited while
\* its mirrored output exists, overwrite is off and the skip-native branch
\* does not take it, exactly one row is appended, built from the output's
\* stem and relative path; skipped grows by one; converted and errors stay;
\* the output's bytes stay.
C1_ExistingOutputIndexed ==
  [][\A f \in files :
       LET src == Append(root, f)
           dst == ExpectedOut(src)
           row == rows'[Len(rows')]
       IN  ( /\ Visits(f)
             /\ Accepted(f) \/ Native(f)
             /\ ~overwrite
             /\ ~(Native(f) /\ skip_webp_inputs)
             /\ dst \in DOMAIN fs )
           => ( /\ OneRowAppended
                /\ row[1] = SubSeq(NameOf(dst), 1, Len(NameOf(dst)) - Len(WEBP_EXT))
                /\ row[5] = SlashJoin(SubSeq(dst, Len(out_dir) + 1, Len(dst)))
                /\ skipped' = skipped + 1
                /\ converted' = converted
                /\ errors' = errors
                /\ dst \in DOMAIN fs' /\ fs'[dst] = fs[dst] )]_vars

\* C1 witness: a file with an accepted extension was visited while its
\* output, a file of an earlier session, existed and overwrite was off; its
\* row is there and the output still holds the earlier bytes
C1_Witness ==
  /\ ~overwrite
  /\ \E i \in SeenAccepted :
       /\ seen[i].had
       /\ ExpectedOut(seen[i].src) \in DOMAIN fs
       /\ fs[ExpectedOut(seen[i].src)] = FileNode(Old)
  /\ skipped >= 1
  /\ Len(rows) >= 1

\* C2: every visit of a corrupt file with an accepted extension, whatever
\* the flags and the output tree, adds one to errors, adds no row, and the
\* walk goes on with the other files.
C2_CorruptAlwaysAnError ==
  [][\A f \in files :
       ( /\ Visits(f)
         /\ Accepted(f)
         /\ fs[Append(root, f)].data = Junk )
       => ( /\ errors' = errors + 1
            /\ rows' = rows
            /\ pc' = "walk" /\ stack' = stack )]_vars

\* C5: with skip-webp-inputs, a visited file with the target extension (in
\* any letter case) adds one to skipped and nothing else: no row, no other
\* counter, no change of the filesystem; whether its output exists or not and
\* whatever overwrite is.
C5_NativeSkippedFirst ==
  [][\A f \in files :
       ( Visits(f) /\ skip_webp_inputs /\ Native(f) )
       => ( /\ skipped' = skipped + 1
            /\ rows' = rows
            /\ converted' = converted /\ errors' = errors
            /\ fs' = fs )]_vars

\* C5 witness: such a file, its extension in mixed case, was visited while
\* its output existed and overwrite was on
C5_Witness ==
  /\ skip_webp_inputs
  /\ overwrite
  /\ \E i \in SeenNative : seen[i].had /\ seen[i].src[Len(seen[i].src)] = n_x_webp
  /\ skipped >= 1

\* C3: when a second run with overwrite off has ended, its rows are, as a
\* set, the rows of the first run, and every output file the first run left
\* (every file below the output root other than the table) holds the same
\* bytes.
C3_SecondRunSameRows ==
  (run = 2 /\ pc = "done" /\ ~overwrite)
  => ( /\ Range(rows) = Range(prev.rows)
       /\ \A p \in DOMAIN prev.fs :
            (Below(p, out_dir) /\ p # csv_path /\ prev.fs[p].kind = "file")
            => (p \in DOMAIN fs /\ fs[p] = prev.fs[p]) )

\* the file at p holds an image that can be decoded
HoldsImage(p) == fs[p].data.img \notin {"junk", "csv"}

\* nothing can be written at p: it is a directory, or a file stands where
\* one of the directories above it should be
Obstructed(p) ==
  \/ p \in DOMAIN fs /\ fs[p].kind = "dir"
  \/ \E k \in 1..(Len(p) - 1) :
       SubSeq(p, 1, k) \in DOMAIN fs /\ fs[SubSeq(p, 1, k)].kind = "file"

TableIsRows ==
  /\ csv_path \in DOMAIN fs
  /\ fs[csv_path].kind = "file"
  /\ LET table == fs[csv_path].data.table
     IN  /\ Len(table) = Len(rows) + 1
         /\ table[1] = Header
         /\ \A k \in 1..Len(rows) : table[k + 1] = rows[k]

\* C6: a run that got past the test of the input directory and has ended,
\* ended with the table written, the header followed by the accumulated
\* rows in their order.
C6_RunEndsWithTable == pc \in {"done", "raised"} => TableIsRows

\* C7: the row appended for a visited file, kept or written, has as relative
\* path the output path relative to the output root, joined by forward
\* slashes, and as url the base url without its trailing slashes, a slash,
\* and that relative path.
C7_RowUrl ==
  [][\A f \in files :
       (Visits(f) /\ Len(rows') > Len(rows))
       => LET row == rows'[Len(rows')]
              dst == ExpectedOut(Append(root, f))
          IN  /\ row[5] = SlashJoin(SubSeq(dst, Len(out_dir) + 1, Len(dst)))
              /\ row[6] = TrimSlashes(base_url) \o <<"/">> \o row[5]]_vars

\* C7 witness: with a base url that ends in slashes, a row was appended for
\* a kept output and a row for a written one, one of them in a directory
C7_Witness ==
  /\ base_url = <<"u", "/", "/">>
  /\ \E i, j \in 1..Len(seen) : seen[i].did = "existing" /\ seen[j].did = "converted"
  /\ \E k \in 1..Len(rows) : \E n \in 1..Len(rows[k][5]) : rows[k][5][n] = "/"
  /\ Len(rows) >= 2

\* C8: parse_name returns three strings, the first, second and third
\* segment of the stem between underscores, empty where the stem has no such
\* segment; segments after the third are dropped.  The documented examples
\* hold.
C8_ParseName ==
  p_out # <<>>
  => ( /\ Len(p_out) = 3
       /\ \A k \in 1..3 : p_out[k] = Segment(p_stem, k)
       /\ p_stem = Stem34th
          => p_out = << <<"3","4","t","h">>, <<"s","t">>, <<"t","i","m","e","s">> >>
       /\ p_stem = StemOnlyname => p_out = <<StemOnlyname, <<>>, <<>>>>
       /\ p_stem = <<>> => p_out = << <<>>, <<>>, <<>> >> )

\* C8 witness: a stem of four segments, one of them empty, was parsed
C8_Witness ==
  /\ p_stem = <<"a", "_", "_", "b">>
  /\ p_out = << <<"a">>, <<>>, <<"b">> >>

\* C9: at every point of the walk the number of rows is converted plus the
\* number of files skipped because their output existed, that is skipped
\* less the files the skip-native branch took; and a visit leaves the rows
\* there were as they are, in their places.
C9_RowsCounted ==
  /\ [](pc \in {"walk", "done", "raised"}
        => Len(rows) = converted + skipped
                       - (IF skip_webp_inputs THEN Cardinality(SeenNative) ELSE 0))
  /\ [][pc = "walk" => (Len(rows') >= Len(rows)
                        /\ SubSeq(rows', 1, Len(rows)) = rows)]_vars

\* C9 witness: during the walk a row has been appended, a native file was
\* skipped without a row and a file ended in an error without a row
C9_Witness ==
  /\ pc = "walk"
  /\ Len(rows) >= 1
  /\ skip_webp_inputs /\ SeenNative # {}
  /\ errors >= 1

\* C10: a visit changes at most one counter, by one.  A file whose extension
\* is neither accepted nor the target's changes no counter, no row and no
\* file; any other file adds one to exactly one of converted, skipped and
\* errors.  So the total printed at the end is the number of visited files
\* whose extension is accepted or the target's.
C10_OneCounterPerFile ==
  /\ [][\A f \in files :
          Visits(f)
          => LET dc == converted' - converted
                 ds == skipped' - skipped
                 de == errors' - errors
             IN  IF Accepted(f) \/ Native(f)
                 THEN {dc, ds, de} = {0, 1} /\ dc + ds + de = 1
                 ELSE dc = 0 /\ ds = 0 /\ de = 0 /\ rows' = rows /\ fs' = fs]_vars
  /\ [](pc = "done"
        => converted + skipped + errors
           = Cardinality(SeenAccepted \cup SeenNative))

====
